---- MODULE Spec2Model ----
(***************************************************************************)
(* Cloud Virtual Laboratory (src/app.py): the sandbox runner               *)
(* (execute_python_code), the grader (start_lab), and the CSV session      *)
(* store (save_session, grading_dashboard, my_sessions), as run by         *)
(* concurrent Streamlit script threads that share the files under data/.   *)
(*                                                                         *)
(* Text is a sequence of one-character strings.  A file variable holds what *)
(* to_csv wrote; a DataFrame is what read_csv makes of it.                 *)
(***************************************************************************)
EXTENDS Integers, Sequences, FiniteSets, TLC

VARIABLES
    sessions,   \* data/lab_sessions.csv: sequence of rows as written
    labs,       \* data/labs.csv: sequence of rows as written
    authored,   \* history: lab_id -> expected output as the instructor typed it
    now,        \* wall clock, in whole seconds (strftime "%Y-%m-%d %H:%M:%S")
    pc,         \* per script thread: position in its handler
    local,      \* per script thread: the handler's local variables
    msg,        \* per script thread: the last st.success/st.warning/st.info shown
    issued,     \* history: session ids assigned by completed save_session calls
    rpc,        \* execute_python_code: position
    files,      \* execute_python_code: temporary files that exist on disk
    temp_path,  \* execute_python_code: name of this call's temporary file (0: none)
    rrun,       \* execute_python_code: what subprocess.run did
    rret        \* execute_python_code: what the call gave its caller

vars == <<sessions, labs, authored, now, pc, local, msg, issued,
          rpc, files, temp_path, rrun, rret>>

storeVars == <<sessions, labs, authored, now, pc, local, msg, issued>>
runnerVars == <<rpc, files, temp_path, rrun, rret>>

----------------------------------------------------------------------------
(* Bounds *)

MaxLen == 2         \* longest text drawn as stdout, stderr or expected output
MaxAppends == 2     \* save_session calls in Spec and SeqSpec
MaxGraded == 1      \* save_session calls in PipelineSpec
MaxLabs == 2        \* rows of labs.csv
MaxTime == 1        \* last clock tick
MaxFiles == 2       \* temporary file names

----------------------------------------------------------------------------
(* Text *)

Alphabet == {" ", "N", "A"}

Strings == UNION {[1..k -> Alphabet] : k \in 0..MaxLen}

\* "Hello World", the expected output of the default lab
HelloWorld == <<"H", "e", "l", "l", "o", " ", "W", "o", "r", "l", "d">>

\* "(No output)"
NoOutput == <<"(", "N", "o", " ", "o", "u", "t", "p", "u", "t", ")">>

\* The timeout message of execute_python_code; its first character is the
\* stopwatch sign
TimedOutMsg == <<"<stopwatch>", " ", "E", "r", "r", "o", "r", ":", " ", "C", "o", "d", "e", " ",
                 "e", "x", "e", "c", "u", "t", "i", "o", "n", " ",
                 "t", "i", "m", "e", "d", " ", "o", "u", "t", "!">>

IsSpace(c) == c = " "

RECURSIVE lstrip(_)
lstrip(s) ==
    IF s = <<>> THEN s
    ELSE IF IsSpace(Head(s)) THEN lstrip(Tail(s)) ELSE s

RECURSIVE rstrip(_)
rstrip(s) ==
    IF s = <<>> THEN s
    ELSE IF IsSpace(s[Len(s)]) THEN rstrip(SubSeq(s, 1, Len(s) - 1)) ELSE s

\* str.strip()
strip(s) == rstrip(lstrip(s))

----------------------------------------------------------------------------
(* CSV files and DataFrames *)

\* The missing value of a DataFrame cell (float nan); no text equals it.
NaN == <<"NaN">>

\* The field texts read_csv turns into NaN, among the texts of the model.
NAValues == {<<>>, <<"N", "A">>}

\* read_csv, one text field
read_field(s) == IF s \in NAValues THEN NaN ELSE s

\* to_csv, one text cell: NaN is written as the empty field
write_field(v) == IF v = NaN THEN <<>> ELSE v

\* str(v) of a cell
PyStr(v) == IF v = NaN THEN <<"n", "a", "n">> ELSE v

\* A score cell is <<>> (None / NaN / empty field) or <<n>>.
NoScore == <<>>

read_session(r) ==
    [r EXCEPT !.code = read_field(r.code), !.output = read_field(r.output)]

write_session(r) ==
    [r EXCEPT !.code = write_field(r.code), !.output = write_field(r.output)]

read_lab(r) ==
    [r EXCEPT !.title = read_field(r.title),
              !.description = read_field(r.description),
              !.expected_output = read_field(r.expected_output)]

write_lab(r) ==
    [r EXCEPT !.title = write_field(r.title),
              !.description = write_field(r.description),
              !.expected_output = write_field(r.expected_output)]

\* load_csv(SESSIONS_CSV)
load_sessions(file) == [i \in DOMAIN file |-> read_session(file[i])]

\* save_csv(df, SESSIONS_CSV)
save_sessions(df) == [i \in DOMAIN df |-> write_session(df[i])]

\* load_csv(LABS_CSV)
load_labs(file) == [i \in DOMAIN file |-> read_lab(file[i])]

\* save_csv(labs_df, LABS_CSV)
save_labs(df) == [i \in DOMAIN df |-> write_lab(df[i])]

Max(S) == CHOOSE x \in S : \A y \in S : y <= x

Range(f) == {f[i] : i \in DOMAIN f}

----------------------------------------------------------------------------
(* Sandbox runner: execute_python_code *)

\* What subprocess.run can do with the temporary file: the child exits within
\* the timeout (stdout and stderr captured), the timeout expires (the output
\* written so far is in the exception), or the child cannot be launched.
ExitRuns(outs, errs) ==
    [kind : {"exit"}, stdout : outs, stderr : errs]

TimeoutRuns(outs) ==
    [kind : {"timeout"}, stdout : outs, stderr : {<<>>}]

OSErrorRun == [kind |-> "oserror", stdout |-> <<>>, stderr |-> <<>>]

NoRun == [kind |-> "none", stdout |-> <<>>, stderr |-> <<>>]

\* Mutant of select_output: the error stream is preferred
select_output_err_first(out, err) ==
    IF err # <<>> THEN err
    ELSE IF out # <<>> THEN out
    ELSE <<"(", "N", "o", " ", "o", "u", "t", "p", "u", "t", ")">>

\* return out if out else err if err else "(No output)"
select_output(out, err) ==
    IF out # <<>> THEN out
    ELSE IF err # <<>> THEN err
    ELSE NoOutput

\* The text execute_python_code returns for a run that did not raise OSError
execute_python_code(run) ==
    IF run.kind = "timeout" THEN TimedOutMsg
    ELSE select_output(strip(run.stdout), strip(run.stderr))

----------------------------------------------------------------------------
(* Grader: the comparison in start_lab *)

\* 100 if str(output).strip() == str(lab["expected_output"]).strip() else 0
grade(output, expected_output) ==
    IF strip(PyStr(output)) = strip(PyStr(expected_output)) THEN 100 ELSE 0

----------------------------------------------------------------------------
(* Tables *)

\* data/users.csv once one student has registered: the default instructor
\* (id 1) and the student (id = max id + 1 = 2)
Users ==
    << [id |-> 1, name |-> "Instructor", email |-> "instructor@gmail.com",
        role |-> "instructor"],
       [id |-> 2, name |-> "Student", email |-> "student@gmail.com",
        role |-> "student"] >>

\* data/labs.csv as init_csv creates it
DefaultLabs ==
    << [lab_id |-> 1, title |-> <<"B">>, description |-> <<"d">>,
        expected_output |-> HelloWorld] >>

\* Script threads, and st.session_state["user"] of each
Procs == {"p1", "p2"}

UserOf(p) == IF p = "p1" THEN Users[1] ELSE Users[2]

----------------------------------------------------------------------------
(* Session store *)

session_ids(df) == {df[i].session_id : i \in DOMAIN df}

\* Mutant of next_session_id: the + 1 is missing
next_session_id_no_increment(df) ==
    IF df = <<>> THEN 1 ELSE Max(session_ids(df))

\* int(df["session_id"].max()) + 1 if not df.empty else 1
next_session_id(df) ==
    IF df = <<>> THEN 1 ELSE Max(session_ids(df)) + 1

\* The empty text a caller passes as score for "Save Code Only"
EmptyText == <<>>

\* The row save_session adds: score if score != "" else None
new_session_row(df, user_id, lab_id, code, output, score, ts) ==
    [session_id |-> next_session_id(df), user_id |-> user_id,
     lab_id |-> lab_id, code |-> code, output |-> output,
     score |-> IF score # EmptyText THEN score ELSE NoScore,
     timestamp |-> ts]

\* df.loc[len(df)] = [...]
append_row(df, row) == Append(df, row)

\* sessions_df.loc[sessions_df["session_id"] == sid, "score"] = new_score
set_score(df, sid, new_score) ==
    [i \in DOMAIN df |->
        IF df[i].session_id = sid
        THEN [df[i] EXCEPT !.score = <<new_score>>]
        ELSE df[i]]

\* sort_values("timestamp", ascending=False): insertion of r into a sequence
\* sorted newest first, after the rows of the same timestamp
RECURSIVE insert_desc(_, _)
insert_desc(sorted, r) ==
    IF sorted = <<>> THEN <<r>>
    ELSE IF Head(sorted).timestamp >= r.timestamp
         THEN <<Head(sorted)>> \o insert_desc(Tail(sorted), r)
         ELSE <<r>> \o sorted

RECURSIVE sort_desc(_)
sort_desc(rows) ==
    IF rows = <<>> THEN <<>>
    ELSE insert_desc(sort_desc(SubSeq(rows, 1, Len(rows) - 1)), rows[Len(rows)])

\* my_sessions: df[df["user_id"] == user["id"]], newest first
my_sessions(df, user_id) ==
    sort_desc(SelectSeq(df, LAMBDA r : r.user_id = user_id))

\* One session row left-merged with the users table and then the labs table:
\* a row per matching user and lab, NaN where none matches
merge_row(s, users_df, labs_df) ==
    LET us == SelectSeq(users_df, LAMBDA u : u.id = s.user_id)
        ls == SelectSeq(labs_df, LAMBDA l : l.lab_id = s.lab_id)
        names == IF us = <<>> THEN <<[name |-> "NaN", email |-> "NaN"]>>
                 ELSE [i \in DOMAIN us |->
                          [name |-> us[i].name, email |-> us[i].email]]
        titles == IF ls = <<>> THEN <<NaN>>
                  ELSE [i \in DOMAIN ls |-> ls[i].title]
    IN [k \in 1..(Len(names) * Len(titles)) |->
           LET i == ((k - 1) \div Len(titles)) + 1
               j == ((k - 1) % Len(titles)) + 1
           IN [session_id |-> s.session_id, name |-> names[i].name,
               email |-> names[i].email, title |-> titles[j],
               output |-> s.output, score |-> s.score,
               timestamp |-> s.timestamp]]

RECURSIVE merged_view(_, _, _)
merged_view(sessions_df, users_df, labs_df) ==
    IF sessions_df = <<>> THEN <<>>
    ELSE merge_row(Head(sessions_df), users_df, labs_df)
         \o merged_view(Tail(sessions_df), users_df, labs_df)

\* Mutant of grading_view: sessions without a score are left out
grading_view_scored_only(sessions_df, users_df, labs_df) ==
    sort_desc(merged_view(SelectSeq(sessions_df, LAMBDA r : r.score # NoScore),
                          users_df, labs_df))

\* The table grading_dashboard shows
grading_view(sessions_df, users_df, labs_df) ==
    sort_desc(merged_view(sessions_df, users_df, labs_df))

----------------------------------------------------------------------------
(* State *)

NoLocal ==
    [df |-> <<>>, view_ids |-> {}, lab_id |-> 0, code |-> <<>>,
     output |-> <<>>, score |-> <<>>, row |-> <<>>, sid |-> 0]

NoRet == [kind |-> "none", text |-> <<>>, remove_failed |-> FALSE]

Init ==
    /\ sessions = <<>>
    /\ labs = DefaultLabs
    /\ authored = <<HelloWorld>>
    /\ now = 0
    /\ pc = [p \in Procs |-> "idle"]
    /\ local = [p \in Procs |-> NoLocal]
    /\ msg = [p \in Procs |-> ""]
    /\ issued = <<>>
    /\ rpc = "idle"
    /\ files = {}
    /\ temp_path = 0
    /\ rrun = NoRun
    /\ rret = NoRet

\* save_session calls begun: completed, or in flight
appends_begun ==
    Len(issued) + Cardinality({p \in Procs : pc[p] \in {"save_session", "save_csv"}})

----------------------------------------------------------------------------
(* Inputs of Spec and SeqSpec *)

\* The submitted code text, and its runs: it prints the expected text, or
\* nothing
Codes == {<<"A">>}

Runs == ExitRuns({HelloWorld, <<>>}, {<<>>})

\* st.number_input("New Score", 0, 100, 0)
MinScore == 0
MaxScore == 100
NewScores == {MinScore, MaxScore}

\* st.number_input("Enter Session ID to Update", min_value=1, step=1)
SessionIdInputs == 1..(MaxAppends + 1)

----------------------------------------------------------------------------
(* start_lab *)

\* labs_df[labs_df["title"] == chosen_lab].iloc[0]
chosen_lab_row(labs_df, chosen_lab) ==
    labs_df[CHOOSE i \in DOMAIN labs_df :
               /\ labs_df[i].title = chosen_lab
               /\ \A j \in 1..(i - 1) : labs_df[j].title # chosen_lab]

\* "Run Code": execute the code, grade the output, call save_session.
\* execute_python_code is taken by the text it returns; its steps and its
\* temporary file are those of RunnerSpec.
RunCode(p, codes, runs, cap) ==
    /\ pc[p] = "idle"
    /\ appends_begun < cap
    /\ LET labs_df == load_labs(labs)
       IN \E i \in DOMAIN labs_df, code \in codes, run \in runs :
            LET lab == chosen_lab_row(labs_df, labs_df[i].title)
                output == execute_python_code(run)
                score == grade(output, lab.expected_output)
            IN local' = [local EXCEPT ![p] =
                            [NoLocal EXCEPT !.lab_id = lab.lab_id,
                                            !.code = code,
                                            !.output = output,
                                            !.score = <<score>>]]
    /\ pc' = [pc EXCEPT ![p] = "save_session"]
    /\ UNCHANGED <<sessions, labs, authored, now, msg, issued, runnerVars>>

\* "Save Code Only": save_session(user["id"], lab["lab_id"], code, "", "")
SaveOnly(p, codes, cap) ==
    /\ pc[p] = "idle"
    /\ appends_begun < cap
    /\ LET labs_df == load_labs(labs)
       IN \E i \in DOMAIN labs_df, code \in codes :
            LET lab == chosen_lab_row(labs_df, labs_df[i].title)
            IN local' = [local EXCEPT ![p] =
                            [NoLocal EXCEPT !.lab_id = lab.lab_id,
                                            !.code = code,
                                            !.output = EmptyText,
                                            !.score = EmptyText]]
    /\ pc' = [pc EXCEPT ![p] = "save_session"]
    /\ UNCHANGED <<sessions, labs, authored, now, msg, issued, runnerVars>>

\* save_session, up to the new row: load_csv, the next id, datetime.now()
SaveLoad(p) ==
    /\ pc[p] = "save_session"
    /\ LET df == load_sessions(sessions)
           l == local[p]
       IN local' = [local EXCEPT ![p] =
                       [l EXCEPT !.df = df,
                                 !.row = <<new_session_row(df, UserOf(p).id,
                                             l.lab_id, l.code, l.output,
                                             l.score, now)>>]]
    /\ pc' = [pc EXCEPT ![p] = "save_csv"]
    /\ UNCHANGED <<sessions, labs, authored, now, msg, issued, runnerVars>>

\* save_session, the write: df.loc[len(df)] = row; save_csv(df, SESSIONS_CSV)
SaveWrite(p) ==
    /\ pc[p] = "save_csv"
    /\ sessions' = save_sessions(append_row(local[p].df, local[p].row[1]))
    /\ issued' = Append(issued, local[p].row[1].session_id)
    /\ msg' = [msg EXCEPT ![p] = "saved"]
    /\ pc' = [pc EXCEPT ![p] = "idle"]
    /\ local' = [local EXCEPT ![p] = NoLocal]
    /\ UNCHANGED <<labs, authored, now, runnerVars>>

----------------------------------------------------------------------------
(* grading_dashboard *)

\* The page is drawn: the three tables are loaded and merged; the update form
\* exists only when the merged view has rows.
GradingLoad(p) ==
    /\ pc[p] = "idle"
    /\ UserOf(p).role = "instructor"
    /\ LET df == load_sessions(sessions)
           view == merged_view(df, Users, load_labs(labs))
       IN IF view = <<>>
          THEN /\ msg' = [msg EXCEPT ![p] = "No student submissions yet."]
               /\ UNCHANGED <<pc, local>>
          ELSE /\ \E sid \in SessionIdInputs :
                    local' = [local EXCEPT ![p] =
                                 [NoLocal EXCEPT !.df = df,
                                                 !.view_ids = session_ids(view),
                                                 !.sid = sid]]
               /\ pc' = [pc EXCEPT ![p] = "update_score"]
               /\ msg' = [msg EXCEPT ![p] = ""]
    /\ UNCHANGED <<sessions, labs, authored, now, issued, runnerVars>>

\* Mutant of session_found: the membership test is missing
session_found_always(view_ids, sid) == TRUE

\* if sid in merged_view["session_id"].values
session_found(view_ids, sid) == sid \in view_ids

\* "Update Score" with the number inputs sid and new_score; st.rerun() after
\* a successful update redraws the page without the success message
UpdateScore(p) ==
    /\ pc[p] = "update_score"
    /\ \E new_score \in NewScores :
         IF session_found(local[p].view_ids, local[p].sid)
         THEN /\ sessions' = save_sessions(set_score(local[p].df, local[p].sid,
                                                     new_score))
              /\ msg' = [msg EXCEPT ![p] = ""]
         ELSE /\ msg' = [msg EXCEPT ![p] = "Invalid Session ID."]
              /\ UNCHANGED sessions
    /\ local' = [local EXCEPT ![p] = NoLocal]
    /\ pc' = [pc EXCEPT ![p] = "idle"]
    /\ UNCHANGED <<labs, authored, now, issued, runnerVars>>

----------------------------------------------------------------------------
(* dashboard *)

\* int(labs_df["lab_id"].max()) + 1 if not labs_df.empty else 1
next_lab_id(labs_df) ==
    IF labs_df = <<>> THEN 1
    ELSE Max({labs_df[i].lab_id : i \in DOMAIN labs_df}) + 1

\* "Create Lab"
CreateLab(p, titles, expecteds) ==
    /\ pc[p] = "idle"
    /\ UserOf(p).role = "instructor"
    /\ Len(labs) < MaxLabs
    /\ LET labs_df == load_labs(labs)
       IN \E new_title \in titles, expected_output \in expecteds :
            IF strip(new_title) # <<>>
            THEN /\ labs' = save_labs(Append(labs_df,
                              [lab_id |-> next_lab_id(labs_df),
                               title |-> new_title,
                               description |-> <<"d">>,
                               expected_output |-> expected_output]))
                 /\ authored' = Append(authored, expected_output)
                 /\ msg' = [msg EXCEPT ![p] = "New lab added successfully!"]
            ELSE /\ msg' = [msg EXCEPT ![p] = "Please enter a lab title."]
                 /\ UNCHANGED <<labs, authored>>
    /\ UNCHANGED <<sessions, now, pc, local, issued, runnerVars>>

----------------------------------------------------------------------------
(* The clock *)

Tick ==
    /\ now < MaxTime
    /\ now' = now + 1
    /\ UNCHANGED <<sessions, labs, authored, pc, local, msg, issued, runnerVars>>

----------------------------------------------------------------------------
(* Specification of the concurrent store: script threads interleave at every
   file read and write *)

Next ==
    \/ \E p \in Procs : RunCode(p, Codes, Runs, MaxAppends)
    \/ \E p \in Procs : SaveOnly(p, Codes, MaxAppends)
    \/ \E p \in Procs : SaveLoad(p)
    \/ \E p \in Procs : SaveWrite(p)
    \/ \E p \in Procs : GradingLoad(p)
    \/ \E p \in Procs : UpdateScore(p)
    \/ Tick

Spec == Init /\ [][Next]_vars

----------------------------------------------------------------------------
(* Specification of sequential use: a handler begins only when no other
   script thread is inside one, as under the mutual exclusion the design
   asks of the store *)

Quiet(p) == \A q \in Procs \ {p} : pc[q] = "idle"

SeqNext ==
    \/ \E p \in Procs : Quiet(p) /\ RunCode(p, Codes, Runs, MaxAppends)
    \/ \E p \in Procs : Quiet(p) /\ SaveOnly(p, Codes, MaxAppends)
    \/ \E p \in Procs : SaveLoad(p)
    \/ \E p \in Procs : SaveWrite(p)
    \/ \E p \in Procs : Quiet(p) /\ GradingLoad(p)
    \/ \E p \in Procs : UpdateScore(p)
    \/ Tick

SeqSpec == Init /\ [][SeqNext]_vars

----------------------------------------------------------------------------
(* Specification of the pipeline on arbitrary texts: one instructor thread
   authors labs, runs code against them and saves sessions *)

\* Code texts: one that read_csv keeps and one it reads as NaN
PipelineCodes == {<<"A">>, <<"N", "A">>}

PipelineRuns ==
    ExitRuns(Strings, {<<>>, <<"A">>}) \cup TimeoutRuns({<<>>, <<"A">>})

\* Lab titles typed by the instructor: a new one, the default lab's, a blank
Titles == {<<"T">>, <<"B">>, <<" ">>}

PipelineNext ==
    \/ CreateLab("p1", Titles, Strings)
    \/ RunCode("p1", PipelineCodes, PipelineRuns, MaxGraded)
    \/ SaveOnly("p1", PipelineCodes, MaxGraded)
    \/ SaveLoad("p1")
    \/ SaveWrite("p1")
    \/ Tick

PipelineSpec == Init /\ [][PipelineNext]_vars

----------------------------------------------------------------------------
(* Specification of the sandbox runner: execute_python_code step by step *)

\* with tempfile.NamedTemporaryFile(delete=False, suffix=".py") as t: the
\* file is created under a name no existing file has; creation may fail
ExecCreate ==
    /\ rpc = "idle"
    /\ \/ /\ \E name \in (1..MaxFiles) \ files :
               /\ files' = files \cup {name}
               /\ temp_path' = name
          /\ rpc' = "created"
          /\ rret' = NoRet
       \/ /\ rpc' = "done"
          /\ rret' = [kind |-> "raise", text |-> <<>>, remove_failed |-> FALSE]
          /\ temp_path' = 0
          /\ UNCHANGED files
    /\ rrun' = NoRun
    /\ UNCHANGED storeVars

\* t.write(code.encode()); t.flush(): inside the with block and before the
\* try; an exception here (encoding, disk) leaves the function at once
ExecWrite ==
    /\ rpc = "created"
    /\ \/ rpc' = "written" /\ UNCHANGED rret
       \/ /\ rpc' = "done"
          /\ rret' = [kind |-> "raise", text |-> <<>>, remove_failed |-> FALSE]
    /\ UNCHANGED <<files, temp_path, rrun, storeVars>>

\* subprocess.run(["python", temp_path], capture_output=True, text=True,
\*                timeout=timeout)
ExecRun ==
    /\ rpc = "written"
    /\ \E run \in ExitRuns(Strings, Strings) \cup TimeoutRuns(Strings)
                  \cup {OSErrorRun} : rrun' = run
    /\ rpc' = "finally"
    /\ UNCHANGED <<files, temp_path, rret, storeVars>>

\* finally: try: os.remove(temp_path) except Exception: pass; then the return
\* value, or the exception of subprocess.run, reaches the caller
ExecFinally ==
    /\ rpc = "finally"
    /\ \E removed \in BOOLEAN :
         /\ files' = IF removed THEN files \ {temp_path} ELSE files
         /\ rret' = IF rrun.kind = "oserror"
                    THEN [kind |-> "raise", text |-> <<>>,
                          remove_failed |-> ~removed]
                    ELSE [kind |-> "return", text |-> execute_python_code(rrun),
                          remove_failed |-> ~removed]
    /\ rpc' = "done"
    /\ UNCHANGED <<temp_path, rrun, storeVars>>

\* The next call of execute_python_code
ExecAgain ==
    /\ rpc = "done"
    /\ rpc' = "idle"
    /\ temp_path' = 0
    /\ rrun' = NoRun
    /\ rret' = NoRet
    /\ UNCHANGED <<files, storeVars>>

RunnerNext ==
    \/ ExecCreate
    \/ ExecWrite
    \/ ExecRun
    \/ ExecFinally
    \/ ExecAgain

RunnerSpec == Init /\ [][RunnerNext]_vars

----------------------------------------------------------------------------
(* Properties *)

\* p takes the step that writes its new session row
IsSaveWrite(p) == pc[p] = "save_csv" /\ pc'[p] = "idle"

\* p takes the step that decides and performs its score update
IsUpdateScore(p) == pc[p] = "update_score" /\ pc'[p] = "idle"

\* A missing cell shown as the empty text it was written as
Shown(v) == IF v = NaN THEN <<>> ELSE v

\* C1: in every interleaving of concurrent save_session calls, the session
\* identifiers assigned to the appended sessions are pairwise distinct.
C1_DistinctIdentifiers ==
    \A i, j \in DOMAIN issued : i # j => issued[i] # issued[j]

\* C2: the write of an append keeps every session record that is in the
\* store and adds one record, so that after concurrent submissions have
\* returned the store holds one record per submission.
C2_NoAppendLost ==
    [][\A p \in Procs :
          IsSaveWrite(p) =>
             /\ Len(sessions') = Len(sessions) + 1
             /\ \A i \in DOMAIN sessions :
                   load_sessions(sessions')[i] = load_sessions(sessions)[i]]_vars

\* C3: an update of the score of session sid changes nothing but the score
\* field of the sessions with that identifier: the store keeps the same
\* sessions in the same order, none is deleted, and every other field of
\* every session is as it was, also when an append falls between the
\* update's read and its write.
C3_UpdateChangesScoreOnly ==
    [][\A p \in Procs :
          IsUpdateScore(p) =>
             /\ Len(sessions') = Len(sessions)
             /\ \A i \in DOMAIN sessions :
                   IF sessions[i].session_id = local[p].sid
                   THEN sessions'[i] = [sessions[i] EXCEPT !.score = sessions'[i].score]
                   ELSE sessions'[i] = sessions[i]]_vars

\* C4: an update of the score of an identifier that no session has in the
\* store as this update read it shows "Invalid Session ID." and writes
\* nothing: the session file is exactly as before the step.
C4_UnknownIdRejected ==
    [][\A p \in Procs :
          (IsUpdateScore(p) /\ local[p].sid \notin session_ids(local[p].df)) =>
             /\ sessions' = sessions
             /\ msg'[p] = "Invalid Session ID."]_vars

\* C4 witness: an update was rejected while the store holds sessions.
C4_Witness ==
    /\ msg["p1"] = "Invalid Session ID."
    /\ pc["p1"] = "idle"
    /\ Len(sessions) >= 1

\* C5: in sequential use the first append is assigned identifier 1 and each
\* later one the maximum identifier plus 1; the identifiers in the store are
\* those assigned, each once, strictly increasing in append order.
C5_SequentialIdentifiers ==
    /\ \A i \in DOMAIN issued : issued[i] = IF i = 1 THEN 1 ELSE issued[i - 1] + 1
    /\ Len(sessions) = Len(issued)
    /\ \A i \in DOMAIN sessions : sessions[i].session_id = issued[i]
    /\ \A i, j \in DOMAIN sessions :
          i < j => sessions[i].session_id < sessions[j].session_id

\* C5 witness: two sessions were appended and a score was then updated.
C5_Witness ==
    /\ Len(issued) >= 2
    /\ \E i \in DOMAIN sessions :
          /\ sessions[i].output = <<>>
          /\ sessions[i].score # NoScore

\* C6: when execute_python_code returns, its text is the timeout message if
\* the run timed out, whatever had been printed; otherwise the trimmed
\* stdout if that is not empty, whatever stderr holds; otherwise the trimmed
\* stderr if that is not empty; otherwise "(No output)".  The text is never
\* empty and has no surrounding whitespace.
C6_OutputSelection ==
    (rpc = "done" /\ rret.kind = "return") =>
       LET out == strip(rrun.stdout)
           err == strip(rrun.stderr)
       IN /\ rrun.kind = "timeout" => rret.text = TimedOutMsg
          /\ (rrun.kind = "exit" /\ out # <<>>) => rret.text = out
          /\ (rrun.kind = "exit" /\ out = <<>> /\ err # <<>>) => rret.text = err
          /\ (rrun.kind = "exit" /\ out = <<>> /\ err = <<>>) => rret.text = NoOutput
          /\ rret.text # <<>>
          /\ ~IsSpace(Head(rret.text))
          /\ ~IsSpace(rret.text[Len(rret.text)])

\* C6 witness: a run that printed only whitespace on stdout and a text
\* with surrounding whitespace on stderr has returned.
C6_Witness ==
    /\ rpc = "done"
    /\ rret.kind = "return"
    /\ rrun.kind = "exit"
    /\ rrun.stdout = <<" ">>
    /\ rrun.stderr = <<" ", "A">>

\* C7: once a call of execute_python_code is over, by return or by
\* exception, the temporary file it created no longer exists, unless its
\* removal failed (which the call does not report).
C7_NoResidue ==
    rpc = "done" =>
       \/ temp_path = 0
       \/ temp_path \notin files
       \/ rret.remove_failed

\* C8: the score computed by "Run Code" and put in the session row is 100
\* if the trimmed output equals the trimmed expected output of the chosen
\* lab as its author typed it, and 0 otherwise.
C8_ExactMatchScore ==
    \A p \in Procs :
       LET l == local[p]
           expected == authored[l.lab_id]
           right == IF strip(l.output) = strip(expected) THEN <<100>> ELSE <<0>>
       IN /\ (pc[p] = "save_session" /\ l.score # EmptyText) => l.score = right
          /\ (pc[p] = "save_csv" /\ l.score # EmptyText) => l.row[1].score = right

\* C9 (as amended): a session without a score is in the grading view and in
\* the "my sessions" view of its user.
C9_UnscoredInBothViews ==
    LET df == load_sessions(sessions)
        view == grading_view(df, Users, load_labs(labs))
    IN \A i \in DOMAIN df :
          df[i].score = NoScore =>
             /\ df[i].session_id \in session_ids(view)
             /\ df[i] \in Range(my_sessions(df, df[i].user_id))

\* C9 witness: the store holds a session without a score and a scored one.
C9_Witness ==
    /\ \E i \in DOMAIN sessions : sessions[i].score = NoScore
    /\ \E i \in DOMAIN sessions : sessions[i].score # NoScore

\* C9 (as claimed): a session without a score is never in the grading view
\* and is in the "my sessions" view of its user.
C9_UnscoredNotInGradingView ==
    LET df == load_sessions(sessions)
        view == grading_view(df, Users, load_labs(labs))
    IN \A i \in DOMAIN df :
          df[i].score = NoScore =>
             /\ df[i].session_id \notin session_ids(view)
             /\ df[i] \in Range(my_sessions(df, df[i].user_id))

\* C10: right after save_session(u, l, code, output, score) the "my
\* sessions" view of u has a row with that code, output and score (a missing
\* cell read as the empty text) whose timestamp is later than that of every
\* session u had in the store before.
C10_RoundTrip ==
    [][\A p \in Procs :
          IsSaveWrite(p) =>
             LET l == local[p]
                 u == UserOf(p).id
                 before == my_sessions(load_sessions(sessions), u)
                 after == my_sessions(load_sessions(sessions'), u)
             IN \E k \in DOMAIN after :
                   /\ Shown(after[k].code) = l.code
                   /\ Shown(after[k].output) = l.output
                   /\ after[k].score = l.row[1].score
                   /\ \A j \in DOMAIN before :
                         after[k].timestamp > before[j].timestamp]_vars

====
